---- MODULE Spec2Model ----
(***************************************************************************)
(* Chicago Crime Intel dashboard (apps/dashboard/app.py).                  *)
(*                                                                         *)
(* The script is executed top to bottom once per user interaction.  The    *)
(* module models                                                           *)
(*   - the script run as it is written (Spec): session-state defaults,     *)
(*     then the module-level guard of lines 84-90;                         *)
(*   - load_data: archive locator and CSV extractor (SpecLoad), together   *)
(*     with the landing page's year scan;                                  *)
(*   - the two page branches and the cache of load_data (SpecPages);       *)
(*   - the filter mask (SpecFilter) and the views computed from the        *)
(*     filtered table (SpecView).                                          *)
(***************************************************************************)
EXTENDS Integers, Sequences, FiniteSets, TLC

VARIABLES
    fs,               \* the paths that exist on disk (os.path.exists)
    session_state,    \* st.session_state: a dict, key -> value
    pc,               \* position of the current script run
    exc,              \* the exception that ended the run, or "none"
    rendered,         \* the elements the current run has put on the page
    df,               \* the binding of the name df in the run's namespace
    cache,            \* st.cache_data's store for load_data: year -> value
    bodyRuns,         \* year -> the values load_data's body returned for it,
                      \* one per execution of the body
    call,             \* the last direct call of load_data's body: its year,
                      \* the archive's name list, what it opened and read
    available_years,  \* the landing page's scan result (lines 111-115)
    chosen_year,      \* the select_slider's value (line 118)
    widgets,          \* the sidebar's values: sel_types, sel_districts, arrest
    view              \* what the dashboard computed from df in this run

vars == <<fs, session_state, pc, exc, rendered, df, cache, bodyRuns, call,
          available_years, chosen_year, widgets, view>>

----------------------------------------------------------------------------
(* Bounds of the model.                                                    *)

MaxFiles == 3      \* files present on disk
MaxEntries == 2    \* entries in an archive's name list
MaxRows == 2       \* rows in a table

(* Constants of the program.                                               *)

DefaultYear == 2024     \* line 20
YearLo == 2014          \* range(2014, 2025), line 112
YearHi == 2025
FallbackYear == 2024    \* line 115
SampleCap == 20000      \* lines 209-210
TopN == 5               \* line 246

----------------------------------------------------------------------------
(* Values.                                                                 *)

None == [kind |-> "None"]
Unbound == [kind |-> "unbound"]      \* a name with no binding
(* A DataFrame: its index labels and, in the same order, its rows. *)
DataFrame(index, rows) == [kind |-> "df", index |-> index, rows |-> rows]
(* A nullable cell: NaN, or Val(v). *)
NaN == <<>>
Val(v) == <<v>>
isna(x) == x = NaN

EmptyDict == [k \in {} |-> "none"]
NoCall == [year |-> 0, opened |-> <<>>, namelist |-> <<>>, read |-> <<>>,
           ret |-> None]
NoView == [kind |-> "none"]
NoWidgets == [kind |-> "none"]

(* Sequences over S of length at most n. *)
SeqUpTo(S, n) == UNION {[1..k -> S] : k \in 0..n}

----------------------------------------------------------------------------
(* The file system.  A path is a directory and a file name; the file name  *)
(* is the f-string chicago_crime_{year}{ext}.                              *)

search_dirs == <<".", "split_data_by_year">>

FileName(year, ext) == [year |-> year, ext |-> ext]
join(d, f) == [dir |-> d, file |-> f]

(* possible_files with the two names in the other order. *)
possible_files_swapped(year) ==
    <<FileName(year, ".zip"), FileName(year, ".csv.zip")>>

possible_files(year) == <<FileName(year, ".csv.zip"), FileName(year, ".zip")>>

(* The years whose files the model puts on disk: the last two of the scan  *)
(* range.                                                                  *)
FsYears == {YearHi - 2, YearHi - 1}
Exts == {".csv.zip", ".zip", ".csv"}
Paths == {join(search_dirs[i], FileName(y, e)) :
             i \in 1..Len(search_dirs), y \in FsYears, e \in Exts}
Disks == {S \in SUBSET Paths : Cardinality(S) <= MaxFiles}

exists(disk, p) == p \in disk

----------------------------------------------------------------------------
(* Archive contents.  An entry name is a directory prefix, a stem and a    *)
(* suffix, so that startswith and endswith read the two ends of it.        *)

EntryNames ==
    { [prefix |-> "",          stem |-> "crimes",   suffix |-> ".csv"],
      [prefix |-> "data/",     stem |-> "crimes",   suffix |-> ".csv"],
      [prefix |-> "__MACOSX/", stem |-> "._crimes", suffix |-> ".csv"],
      [prefix |-> "",          stem |-> "README",   suffix |-> ".txt"] }

NameLists == SeqUpTo(EntryNames, MaxEntries)

MacosxCsv == [prefix |-> "__MACOSX/", stem |-> "._crimes", suffix |-> ".csv"]
CrimesCsv == [prefix |-> "", stem |-> "crimes", suffix |-> ".csv"]

endswith_csv(name) == name.suffix = ".csv"
startswith_MACOSX(name) == name.prefix = "__MACOSX/"

----------------------------------------------------------------------------
(* Rows.  A row of the CSV carries the columns the dashboard filters and   *)
(* groups on; a Date is given by the three parts the script derives.       *)

Days == <<"Monday", "Tuesday", "Wednesday", "Thursday", "Friday", "Saturday",
          "Sunday">>

Date1 == [month |-> 1, day_name |-> "Monday", hour |-> 0]
Date2 == [month |-> 12, day_name |-> "Sunday", hour |-> 23]

RawRow(date, type, arrest, district, lat, lon) ==
    [Date |-> date, PrimaryType |-> type, Arrest |-> arrest,
     District |-> district, Latitude |-> lat, Longitude |-> lon]

(* The row universes of the specifications. *)
Row1 == RawRow(Date1, "THEFT", TRUE, Val(1), Val(41), Val(-87))
Row2 == RawRow(Date2, "ARSON", FALSE, NaN, NaN, Val(-87))
LoadRows == {Row1, Row2}
LoadTables == {<<>>, <<Row1, Row2>>}
FilterRows ==
    { RawRow(Date1, t, a, d, Val(41), Val(-87)) :
        t \in {"THEFT", "ARSON"}, a \in BOOLEAN, d \in {NaN, Val(1), Val(2)} }
ViewRows ==
    { RawRow(dt, t, dt = Date1, Val(1), la, lo) :
        dt \in {Date1, Date2}, t \in {"THEFT", "ARSON"},
        la \in {NaN, Val(41)}, lo \in {NaN, Val(-87)} }

(* Lines 76-80: read the CSV, then derive Month_Num, Hour and DayOfWeek. *)
derive(r) ==
    [Date |-> r.Date, PrimaryType |-> r.PrimaryType, Arrest |-> r.Arrest,
     District |-> r.District, Latitude |-> r.Latitude,
     Longitude |-> r.Longitude,
     Month_Num |-> r.Date.month, Hour |-> r.Date.hour,
     DayOfWeek |-> r.Date.day_name]

read_csv(raw) ==
    DataFrame([i \in 1..Len(raw) |-> i], [i \in 1..Len(raw) |-> derive(raw[i])])

----------------------------------------------------------------------------
(* load_data, lines 45-82.                                                 *)

(* Lines 57-61: the inner loop over possible_files, from index j. *)
RECURSIVE scan_files(_, _, _, _)
scan_files(disk, d, year, j) ==
    IF j > Len(possible_files(year)) THEN None
    ELSE LET test_path == join(d, possible_files(year)[j]) IN
         IF exists(disk, test_path) THEN test_path
         ELSE scan_files(disk, d, year, j + 1)

(* Lines 56-62: the outer loop over search_dirs, from index i. *)
RECURSIVE scan_dirs(_, _, _)
scan_dirs(disk, year, i) ==
    IF i > Len(search_dirs) THEN None
    ELSE LET found == scan_files(disk, search_dirs[i], year, 1) IN
         IF found # None THEN found
         ELSE scan_dirs(disk, year, i + 1)

found_path(disk, year) == scan_dirs(disk, year, 1)

(* Line 71 without the metadata test. *)
IsAnyCsv(name) == endswith_csv(name)

(* Line 71. *)
IsRealCsv(name) == endswith_csv(name) /\ ~startswith_MACOSX(name)
csv_files(namelist) == SelectSeq(namelist, IsRealCsv)

(* The body of load_data on a disk, for an archive that, when opened,      *)
(* lists namelist and whose entry read holds the rows raw.  opened and     *)
(* read record the archive opened (line 69) and the entry opened (line 75).*)
load_data_body(disk, year, namelist, raw) ==
    LET fp == found_path(disk, year) IN
    IF fp # None
    THEN LET cf == csv_files(namelist) IN
         IF cf # <<>>
         THEN [opened |-> <<fp>>, read |-> <<cf[1]>>, ret |-> read_csv(raw)]
         ELSE [opened |-> <<fp>>, read |-> <<>>, ret |-> None]
    ELSE [opened |-> <<>>, read |-> <<>>, ret |-> None]

(* Lines 111-115: the landing page's scan for the years to offer. *)
RECURSIVE scan_years(_, _)
scan_years(disk, y) ==
    IF y >= YearHi THEN <<>>
    ELSE IF exists(disk, join("split_data_by_year", FileName(y, ".csv")))
            \/ exists(disk, join(".", FileName(y, ".csv")))
         THEN <<y>> \o scan_years(disk, y + 1)
         ELSE scan_years(disk, y + 1)

scan_available_years(disk) ==
    LET found == scan_years(disk, YearLo) IN
    IF found = <<>> THEN <<FallbackYear>> ELSE found

----------------------------------------------------------------------------
(* The script run as written: lines 17-20, then lines 84-90.               *)

InitCommon ==
    /\ cache = EmptyDict
    /\ bodyRuns = [y \in FsYears |-> <<>>]
    /\ call = NoCall
    /\ available_years = <<>>
    /\ chosen_year = 0
    /\ widgets = NoWidgets
    /\ view = NoView

(* A new session: st.session_state is empty and no run has started. *)
Init ==
    /\ fs \in Disks
    /\ session_state = EmptyDict
    /\ pc = "idle"
    /\ exc = "none"
    /\ rendered = {}
    /\ df = Unbound
    /\ InitCommon

(* The script runner starts a run (first load, a widget event, a rerun) in *)
(* a fresh module namespace: no name of the script is bound yet.           *)
StartRun ==
    /\ pc \in {"idle", "stopped", "failed"}
    /\ pc' = "state"
    /\ exc' = "none"
    /\ rendered' = {}
    /\ df' = Unbound
    /\ UNCHANGED <<fs, session_state, cache, bodyRuns, call, available_years,
                   chosen_year, widgets, view>>

(* Lines 17-20. *)
setdefault(d, k, v) == IF k \in DOMAIN d THEN d ELSE (k :> v) @@ d

SessionDefaults ==
    /\ pc = "state"
    /\ session_state' =
          setdefault(setdefault(session_state, "app_mode", "Welcome"),
                     "selected_year", DefaultYear)
    /\ pc' = "guard"
    /\ UNCHANGED <<fs, exc, rendered, df, cache, bodyRuns, call,
                   available_years, chosen_year, widgets, view>>

(* Lines 84-90.  The name df is read at module level; reading a name with  *)
(* no binding raises NameError, which ends the run.                        *)
guard_df(binding) ==
    IF binding = Unbound THEN "NameError"
    ELSE IF binding = None \/ binding.rows = <<>> THEN "stop"
    ELSE "continue"

guard_effect(binding, shown) ==
    LET g == guard_df(binding) IN
    IF g = "NameError"
    THEN [exc |-> "NameError", pc |-> "failed",
          rendered |-> shown \cup {"exception"}]
    ELSE IF g = "stop"
    THEN [exc |-> "none", pc |-> "stopped",
          rendered |-> shown \cup {"error_no_data_file", "info_hint"}]
    ELSE [exc |-> "none", pc |-> "page",
          rendered |-> shown \cup {"success_loaded"}]

ModuleGuard ==
    /\ pc = "guard"
    /\ LET e == guard_effect(df, rendered) IN
       /\ exc' = e.exc
       /\ rendered' = e.rendered
       /\ pc' = e.pc
    /\ UNCHANGED <<fs, session_state, df, cache, bodyRuns, call,
                   available_years, chosen_year, widgets, view>>

Next == StartRun \/ SessionDefaults \/ ModuleGuard

Spec == Init /\ [][Next]_vars

----------------------------------------------------------------------------
(* The dashboard's sidebar and filter, lines 152-171.                      *)

FrameRows(d) == 1..Len(d.rows)

(* d[m]: the rows whose mask entry is TRUE, with their labels, in order. *)
RECURSIVE take_from(_, _, _)
take_from(d, m, i) ==
    IF i > Len(d.rows) THEN DataFrame(<<>>, <<>>)
    ELSE LET rest == take_from(d, m, i + 1) IN
         IF m[i]
         THEN DataFrame(<<d.index[i]>> \o rest.index, <<d.rows[i]>> \o rest.rows)
         ELSE rest

getitem_mask(d, m) == take_from(d, m, 1)

all_types(d) == {d.rows[i].PrimaryType : i \in FrameRows(d)}
default_types == {"THEFT", "BATTERY", "CRIMINAL DAMAGE", "ASSAULT"}
default_sel_types(d) == default_types \cap all_types(d)
all_districts(d) ==
    {d.rows[i].District[1] : i \in {j \in FrameRows(d) : ~isna(d.rows[j].District)}}
arrest_options == {"All", "Yes", "No"}

(* What the user can set the three widgets to, given their options. *)
WidgetStates(d) ==
    [sel_types : SUBSET all_types(d), sel_districts : SUBSET all_districts(d),
     arrest : arrest_options]

(* Series.isin: a missing cell is in no list. *)
isin(x, S) == x \in S
isin_nullable(x, S) == ~isna(x) /\ x[1] \in S

(* Lines 167-170 with the district test applied to an empty list too. *)
mask_row_district_always(r, w) ==
    /\ isin(r.PrimaryType, w.sel_types)
    /\ isin_nullable(r.District, w.sel_districts)
    /\ (w.arrest = "Yes" => r.Arrest = TRUE)
    /\ (w.arrest = "No" => r.Arrest = FALSE)

(* Lines 167-170, row by row. *)
mask_row(r, w) ==
    LET m0 == isin(r.PrimaryType, w.sel_types)
        m1 == IF w.sel_districts # {}
              THEN m0 /\ isin_nullable(r.District, w.sel_districts) ELSE m0
        m2 == IF w.arrest = "Yes" THEN m1 /\ (r.Arrest = TRUE) ELSE m1
        m3 == IF w.arrest = "No" THEN m2 /\ (r.Arrest = FALSE) ELSE m2
    IN m3

mask(d, w) == [i \in FrameRows(d) |-> mask_row(d.rows[i], w)]

(* Line 171: df[mask] builds a new frame; the frame bound to df stays. *)
filtered_of(d, w) == getitem_mask(d, mask(d, w))
(* The filter assigned back to df. *)
source_filtered_in_place(d, w) == filtered_of(d, w)
source_after_filter(d, w) == d

----------------------------------------------------------------------------
(* The views, lines 189-293.                                               *)

count_rows(d, Test(_)) == Cardinality({i \in FrameRows(d) : Test(d.rows[i])})

(* Line 190. *)
total_incidents(d) == Len(d.rows)

(* Line 191: mean of the Arrest column, times 100, to one decimal: the     *)
(* value in tenths of a percent, NaN for an empty frame.                   *)
IsArrest(r) == r.Arrest
arrest_rate(d) ==
    IF Len(d.rows) = 0 THEN NaN
    ELSE LET n == Len(d.rows)
             k == count_rows(d, IsArrest)
         IN Val((2000 * k + n) \div (2 * n))

(* Line 207 with Latitude as the only subset column. *)
has_latitude(r) == ~isna(r.Latitude)

(* Line 207. *)
has_coords(r) == ~isna(r.Latitude) /\ ~isna(r.Longitude)
dropna_coords(d) == getitem_mask(d, [i \in FrameRows(d) |-> has_coords(d.rows[i])])

(* Line 210: n rows of d drawn at random, in any order. *)
sample(d, n) ==
    { DataFrame([i \in 1..n |-> d.index[pick[i]]], [i \in 1..n |-> d.rows[pick[i]]]) :
        pick \in {q \in [1..n -> FrameRows(d)] :
                     \A a, b \in 1..n : a # b => q[a] # q[b]} }

(* Lines 207-210: the frames the map layer can be given. *)
map_data_of(filtered) ==
    LET md == dropna_coords(filtered) IN
    IF Len(md.rows) > SampleCap THEN sample(md, SampleCap) ELSE {md}

(* Line 239: groupby('Month_Num').size(). *)
trend_of(d) ==
    [m \in {d.rows[i].Month_Num : i \in FrameRows(d)} |->
        Cardinality({i \in FrameRows(d) : d.rows[i].Month_Num = m})]

(* Line 246: value_counts().head(5): the counts of TopN most frequent      *)
(* types; which of several equally frequent types is kept is pandas'       *)
(* choice.                                                                 *)
type_counts(d) ==
    [t \in all_types(d) |->
        Cardinality({i \in FrameRows(d) : d.rows[i].PrimaryType = t})]

top_of(d) ==
    LET c == type_counts(d)
        k == IF Cardinality(DOMAIN c) < TopN THEN Cardinality(DOMAIN c) ELSE TopN
    IN { [t \in K |-> c[t]] :
           K \in {S \in SUBSET DOMAIN c :
                    /\ Cardinality(S) = k
                    /\ \A a \in S, b \in (DOMAIN c) \ S : c[a] >= c[b]} }

(* Line 255: groupby(['DayOfWeek', 'Hour']).size(). *)
heat_of(d) ==
    [c \in {<<d.rows[i].DayOfWeek, d.rows[i].Hour>> : i \in FrameRows(d)} |->
        Cardinality({i \in FrameRows(d) :
                       <<d.rows[i].DayOfWeek, d.rows[i].Hour>> = c})]

(* Lines 260-261: the cell of the 7 x 24 grid after reindex(fill_value=0). *)
heat_cell(h, day, hour) == IF <<day, hour>> \in DOMAIN h THEN h[<<day, hour>>] ELSE 0

(* Everything one dashboard run computes and draws from df and the         *)
(* widgets' values.                                                        *)
views_of(d, w) ==
    LET f == filtered_of(d, w) IN
    IF Len(f.rows) = 0
    THEN { [filtered_df |-> f, total |-> total_incidents(f),
            arrest_rate |-> arrest_rate(f), map_data |-> Unbound,
            trend |-> Unbound, top |-> Unbound, heat |-> Unbound,
            elements |-> {"title", "metric_cards", "map_warning", "heatmap_info"}] }
    ELSE { [filtered_df |-> f, total |-> total_incidents(f),
            arrest_rate |-> arrest_rate(f), map_data |-> md,
            trend |-> trend_of(f), top |-> tp, heat |-> heat_of(f),
            elements |-> {"title", "metric_cards", "map", "trend_chart",
                          "types_chart", "heatmap"}] :
             md \in map_data_of(f), tp \in top_of(f) }

----------------------------------------------------------------------------
(* load_data's body and the year scan, applied to any disk (SpecLoad).     *)

Tables(R) == SeqUpTo(R, MaxRows)

InitIdle ==
    /\ pc = "idle"
    /\ exc = "none"
    /\ rendered = {}
    /\ InitCommon

InitLoad ==
    /\ fs \in Disks
    /\ session_state = EmptyDict
    /\ df = Unbound
    /\ InitIdle

CallLoadBody ==
    /\ call = NoCall
    /\ \E year \in FsYears, namelist \in NameLists, raw \in LoadTables :
       LET r == load_data_body(fs, year, namelist, raw) IN
       call' = [year |-> year, opened |-> r.opened, namelist |-> namelist,
                   read |-> r.read, ret |-> r.ret]
    /\ UNCHANGED <<fs, session_state, pc, exc, rendered, df, cache, bodyRuns,
                   available_years, chosen_year, widgets, view>>

ScanYears ==
    /\ available_years = <<>>
    /\ available_years' = scan_available_years(fs)
    /\ UNCHANGED <<fs, session_state, pc, exc, rendered, df, cache, bodyRuns,
                   call, chosen_year, widgets, view>>

NextLoad == CallLoadBody \/ ScanYears

SpecLoad == InitLoad /\ [][NextLoad]_vars

----------------------------------------------------------------------------
(* The filter and the views, applied to any table (SpecFilter, SpecView).  *)

FilterChange ==
    /\ df.kind = "df"
    /\ \E w \in WidgetStates(df) :
          /\ widgets' = w
          /\ view' \in views_of(df, w)
          /\ df' = source_after_filter(df, w)
    /\ UNCHANGED <<fs, session_state, pc, exc, rendered, cache, bodyRuns, call,
                   available_years, chosen_year>>

InitFilter ==
    /\ fs = {}
    /\ session_state = EmptyDict
    /\ df \in {read_csv(raw) : raw \in Tables(FilterRows)}
    /\ InitIdle

InitView ==
    /\ fs = {}
    /\ session_state = EmptyDict
    /\ df \in {read_csv(raw) : raw \in Tables(ViewRows)}
    /\ InitIdle

NextFilter == FilterChange

SpecFilter == InitFilter /\ [][NextFilter]_vars

SpecView == InitView /\ [][NextFilter]_vars

----------------------------------------------------------------------------
(* The page branches, lines 94-293, and load_data behind st.cache_data     *)
(* (SpecPages).  Under Spec no run passes ModuleGuard (PagesUnreached), so *)
(* SpecPages starts every run at line 94, session defaults set, to check   *)
(* what the two branches do.                                               *)

(* Lines 44-45: st.cache_data keys the stored value by the argument. *)
cache_key(year) == year

(* load_data without the decorator of line 44. *)
uncached_load_data(c, disk, year, namelist, raw) ==
    LET r == load_data_body(disk, year, namelist, raw) IN
    [ret |-> r.ret, cache |-> c, ran |-> TRUE]

cached_load_data(c, disk, year, namelist, raw) ==
    LET k == cache_key(year) IN
    IF k \in DOMAIN c
    THEN [ret |-> c[k], cache |-> c, ran |-> FALSE]
    ELSE LET r == load_data_body(disk, year, namelist, raw) IN
         [ret |-> r.ret, cache |-> (k :> r.ret) @@ c, ran |-> TRUE]

(* Lines 123-124 without the assignment of line 123. *)
launch_state_keep_year(ss, chosen) == [ss EXCEPT !["app_mode"] = "Dashboard"]

(* Lines 123-124 and line 140. *)
launch_state(ss, chosen) ==
    [ss EXCEPT !["selected_year"] = chosen, !["app_mode"] = "Dashboard"]
back_state(ss) == [ss EXCEPT !["app_mode"] = "Welcome"]

(* Line 118: a slider drawn for the first time holds available_years[-1];  *)
(* one already on the page holds what the user set it to.                  *)
slider_values(years, shown) ==
    IF "year_slider" \in shown
    THEN {years[i] : i \in 1..Len(years)}
    ELSE {years[Len(years)]}

(* Lines 154, 158, 161: widgets drawn for the first time hold their        *)
(* defaults; widgets already on the page hold what the user set.           *)
widget_values(d, shown) ==
    IF "filter_widgets" \in shown
    THEN WidgetStates(d)
    ELSE {[sel_types |-> default_sel_types(d), sel_districts |-> {},
           arrest |-> "All"]}

(* What an archive opened by a dashboard run can hold: no CSV, a CSV with  *)
(* a header and no rows, a CSV with rows.                                  *)
PageArchives ==
    { [namelist |-> <<MacosxCsv>>, raw |-> <<>>],
      [namelist |-> <<MacosxCsv, CrimesCsv>>, raw |-> <<>>],
      [namelist |-> <<MacosxCsv, CrimesCsv>>, raw |-> <<Row1, Row2>>] }

InitPages ==
    /\ fs \in Disks
    /\ session_state =
          setdefault(setdefault(EmptyDict, "app_mode", "Welcome"),
                     "selected_year", DefaultYear)
    /\ pc = "page"
    /\ exc = "none"
    /\ rendered = {}
    /\ df = Unbound
    /\ InitCommon

(* A run of the Welcome branch in which the Launch button is not pressed:  *)
(* lines 95-122 and 127. *)
WelcomeRun ==
    /\ session_state["app_mode"] = "Welcome"
    /\ pc \in {"page", "idle"}
    /\ LET years == scan_available_years(fs) IN
       /\ available_years' = years
       /\ chosen_year' \in slider_values(years, rendered)
    /\ rendered' = {"launch_card", "year_slider", "launch_button", "footer"}
    /\ pc' = "idle"
    /\ UNCHANGED <<fs, session_state, exc, df, cache, bodyRuns, call, widgets,
                   view>>

(* The run in which the Launch button is pressed: lines 95-125; st.rerun() *)
(* drops what the run drew and starts the next run.                        *)
Launch ==
    /\ session_state["app_mode"] = "Welcome"
    /\ pc = "idle"
    /\ "launch_button" \in rendered
    /\ available_years' = scan_available_years(fs)
    /\ session_state' = launch_state(session_state, chosen_year)
    /\ rendered' = {}
    /\ pc' = "page"
    /\ UNCHANGED <<fs, exc, df, cache, bodyRuns, call, chosen_year, widgets,
                   view>>

(* The run in which Back to Home is pressed: lines 135-141. *)
Back ==
    /\ session_state["app_mode"] = "Dashboard"
    /\ pc \in {"idle", "stopped"}
    /\ "back_button" \in rendered
    /\ session_state' = back_state(session_state)
    /\ rendered' = {}
    /\ pc' = "page"
    /\ df' = Unbound
    /\ widgets' = NoWidgets
    /\ view' = NoView
    /\ UNCHANGED <<fs, exc, cache, bodyRuns, call, available_years,
                   chosen_year>>

(* A run of the Dashboard branch in which Back is not pressed (the first   *)
(* after Launch, a filter change, a plain rerun): lines 135-293.           *)
DashboardRun ==
    /\ session_state["app_mode"] = "Dashboard"
    /\ pc \in {"page", "idle", "stopped"}
    /\ \E a \in PageArchives :
          LET year == session_state["selected_year"]
              r == cached_load_data(cache, fs, year, a.namelist, a.raw)
          IN /\ cache' = r.cache
             /\ bodyRuns' = IF r.ran
                            THEN [bodyRuns EXCEPT ![year] = Append(@, r.ret)]
                            ELSE bodyRuns
             /\ IF r.ret # None
                THEN \E w \in widget_values(r.ret, rendered) :
                        \E v \in views_of(r.ret, w) :
                           /\ widgets' = w
                           /\ view' = v
                           /\ df' = source_after_filter(r.ret, w)
                           /\ rendered' = {"back_button", "controls_title",
                                           "data_rows", "filter_widgets"}
                                          \cup v.elements
                           /\ pc' = "idle"
                ELSE /\ widgets' = NoWidgets
                     /\ view' = NoView
                     /\ df' = r.ret
                     /\ rendered' = {"back_button", "controls_title",
                                     "error_not_found"}
                     /\ pc' = "stopped"
    /\ UNCHANGED <<fs, session_state, exc, call, available_years, chosen_year>>

NextPages == WelcomeRun \/ Launch \/ Back \/ DashboardRun

SpecPages == InitPages /\ [][NextPages]_vars

----------------------------------------------------------------------------
(* Properties.                                                             *)

RunEnded == pc \in {"failed", "stopped"}

(* The four archive candidates of a year, in the order the spec gives. *)
Candidates(y) ==
    << join(".", FileName(y, ".csv.zip")),
       join(".", FileName(y, ".zip")),
       join("split_data_by_year", FileName(y, ".csv.zip")),
       join("split_data_by_year", FileName(y, ".zip")) >>

Present(disk, y) == {i \in 1..4 : Candidates(y)[i] \in disk}
Least(S) == CHOOSE i \in S : \A j \in S : i <= j

DashboardElements ==
    {"filter_widgets", "title", "metric_cards", "map", "map_warning",
     "trend_chart", "types_chart", "heatmap", "heatmap_info"}

(* No run of the script gets past the guard of lines 84-90. *)
PagesUnreached == pc # "page"

(* C1: a run that ends with no archive for the selected year on disk has   *)
(* shown the missing-data error message, has raised nothing and has drawn  *)
(* no dashboard component.                                                 *)
C1_MissingArchiveShowsMessage ==
    ( /\ RunEnded
      /\ "selected_year" \in DOMAIN session_state
      /\ Present(fs, session_state["selected_year"]) = {} )
    => /\ exc = "none"
       /\ rendered \cap {"error_no_data_file", "error_not_found"} # {}
       /\ rendered \cap DashboardElements = {}

(* C8: a run that ends with app_mode = 'Welcome' has raised nothing and    *)
(* has drawn the landing page's year selector and Launch button.           *)
C8_WelcomeRunReachesLanding ==
    ( /\ RunEnded
      /\ "app_mode" \in DOMAIN session_state
      /\ session_state["app_mode"] = "Welcome" )
    => /\ exc = "none"
       /\ {"year_slider", "launch_button"} \subseteq rendered

C3_FilterLeavesSource == [][df' = df]_vars

(* A filter that kept only part of the table. *)
C3_Witness ==
    /\ view # NoView
    /\ Len(view.filtered_df.rows) > 0
    /\ Len(view.filtered_df.rows) < Len(df.rows)

(* The filter the spec states, for one row. *)
Selected(r, w) ==
    /\ r.PrimaryType \in w.sel_types
    /\ \/ w.sel_districts = {}
       \/ (r.District # NaN /\ r.District[1] \in w.sel_districts)
    /\ \/ w.arrest = "All"
       \/ (w.arrest = "Yes" /\ r.Arrest)
       \/ (w.arrest = "No" /\ ~r.Arrest)

(* C4: the filtered view holds, in source order and once each, exactly the *)
(* source rows that are Selected.                                          *)
C4_FilteredIsSelected ==
    view # NoView =>
       LET f == view.filtered_df IN
       /\ Len(f.index) = Len(f.rows)
       /\ \A j \in 1..Len(f.index) :
             /\ f.index[j] \in FrameRows(df)
             /\ f.rows[j] = df.rows[f.index[j]]
             /\ \A k \in 1..Len(f.index) : j < k => f.index[j] < f.index[k]
       /\ {f.index[j] : j \in 1..Len(f.index)}
             = {i \in FrameRows(df) : Selected(df.rows[i], widgets)}

(* An empty district list with a row of no district kept, and a row        *)
(* dropped by the other two tests.                                         *)
C4_Witness ==
    /\ view # NoView
    /\ widgets.sel_districts = {}
    /\ widgets.arrest = "No"
    /\ \E j \in 1..Len(view.filtered_df.rows) : view.filtered_df.rows[j].District = NaN
    /\ Len(view.filtered_df.rows) < Len(df.rows)

(* The rows of frame d with property Test, counted. *)
CountIn(d, Test(_)) == Cardinality({j \in 1..Len(d.rows) : Test(d.rows[j])})

(* C5: the map's frame holds only rows of the filtered view, none with a   *)
(* missing Latitude or Longitude; Total Incidents, Arrest Rate, the        *)
(* monthly trend, the type counts and the heatmap count every row of the   *)
(* filtered view.                                                          *)
C5_OnlyMapDropsMissingCoords ==
    view # NoView =>
       LET f == view.filtered_df
           n == Len(f.rows)
       IN
       /\ view.total = n
       /\ IF n = 0 THEN view.arrest_rate = NaN
          ELSE LET k == CountIn(f, LAMBDA r : r.Arrest)
                   t == view.arrest_rate[1]
               IN /\ 2 * n * t - 2000 * k <= n
                  /\ 2000 * k - 2 * n * t <= n
       /\ n > 0 =>
            /\ \A j \in 1..Len(view.map_data.rows) :
                  /\ view.map_data.rows[j].Latitude # NaN
                  /\ view.map_data.rows[j].Longitude # NaN
                  /\ \E i \in 1..n : /\ f.index[i] = view.map_data.index[j]
                                     /\ f.rows[i] = view.map_data.rows[j]
            /\ \A m \in 1..12 :
                  CountIn(f, LAMBDA r : r.Month_Num = m)
                     = IF m \in DOMAIN view.trend THEN view.trend[m] ELSE 0
            /\ \A t \in DOMAIN view.top :
                  view.top[t] = CountIn(f, LAMBDA r : r.PrimaryType = t)
            /\ \A i \in 1..Len(Days), h \in 0..23 :
                  heat_cell(view.heat, Days[i], h)
                     = CountIn(f, LAMBDA r : r.DayOfWeek = Days[i] /\ r.Hour = h)

(* A map drawn from fewer rows than the metric cards count. *)
C5_Witness ==
    /\ view # NoView
    /\ view.total > 1
    /\ view.map_data # Unbound
    /\ Len(view.map_data.rows) > 0
    /\ Len(view.map_data.rows) < view.total
    /\ \E j \in 1..view.total : view.filtered_df.rows[j].Longitude = NaN

(* C6: a call for year Y opens the first candidate of Y that exists and    *)
(* nothing else; with none of the four on disk it opens nothing and        *)
(* returns None.                                                           *)
C6_FirstExistingCandidate ==
    call # NoCall =>
       LET here == Present(fs, call.year) IN
       IF here = {}
       THEN call.opened = <<>> /\ call.ret = None
       ELSE /\ call.opened = <<Candidates(call.year)[Least(here)]>>
            /\ call.opened[1].file.year = call.year

(* The last candidate opened while an archive of another year is on disk. *)
C6_Witness ==
    /\ call # NoCall
    /\ call.opened = <<Candidates(call.year)[4]>>
    /\ \E p \in fs : p.file.year # call.year /\ p.file.ext # ".csv"

(* C7: from the archive it opened the call reads one entry, the first in   *)
(* archive order that ends in '.csv' and does not start with '__MACOSX',   *)
(* and returns a table; with no such entry it reads nothing and returns    *)
(* None.                                                                   *)
C7_FirstRealCsv ==
    (call # NoCall /\ call.opened # <<>>) =>
       LET real == {i \in 1..Len(call.namelist) :
                       /\ call.namelist[i].suffix = ".csv"
                       /\ call.namelist[i].prefix # "__MACOSX/"}
       IN IF real = {}
          THEN call.read = <<>> /\ call.ret = None
          ELSE /\ call.read = <<call.namelist[Least(real)]>>
               /\ call.ret # None
               /\ call.ret.kind = "df"

(* A metadata entry listed first and skipped. *)
C7_Witness ==
    /\ call # NoCall
    /\ Len(call.namelist) = 2
    /\ call.namelist[1] = MacosxCsv
    /\ call.read = <<call.namelist[2]>>

(* C9: app_mode is 'Welcome' or 'Dashboard'; a step from Welcome to        *)
(* Dashboard is taken with the Launch button on the page and sets          *)
(* selected_year to the slider's value; a step from Dashboard to Welcome   *)
(* is taken with the Back button on the page and keeps selected_year; a    *)
(* step that keeps app_mode keeps selected_year.                           *)
C9_ModeStep ==
    LET mode == session_state["app_mode"]
        year == session_state["selected_year"]
    IN /\ session_state'["app_mode"] \in {"Welcome", "Dashboard"}
       /\ (mode = "Welcome" /\ session_state'["app_mode"] = "Dashboard")
             => /\ "launch_button" \in rendered
                /\ session_state'["selected_year"] = chosen_year
       /\ (mode = "Dashboard" /\ session_state'["app_mode"] = "Welcome")
             => /\ "back_button" \in rendered
                /\ session_state'["selected_year"] = year
       /\ session_state'["app_mode"] = mode
             => session_state'["selected_year"] = year

C9_Navigation ==
    /\ [](session_state["app_mode"] \in {"Welcome", "Dashboard"})
    /\ [][C9_ModeStep]_vars

(* The dashboard launched for a year other than the default, then filtered.*)
C9_Witness ==
    /\ session_state["app_mode"] = "Dashboard"
    /\ session_state["selected_year"] # DefaultYear
    /\ widgets # NoWidgets
    /\ widgets.arrest = "No"

(* C10: the years the landing page offers are exactly the years of the     *)
(* scan range for which load_data finds an archive.                        *)
C10_OfferedYearsAreLoadable ==
    available_years # <<>> =>
       {available_years[i] : i \in 1..Len(available_years)}
          = {y \in YearLo..(YearHi - 1) : Present(fs, y) # {}}

====
